---- MODULE Spec2Model ----
(***************************************************************************)
(* A state-machine model of plant_disease_api.py: the sliding-log rate     *)
(* limiter, the upload validator, the /predict pipeline, the ranking of    *)
(* the prediction vector, model loading at import time and /health.        *)
(*                                                                         *)
(* Time is counted in whole seconds.  Probabilities are counted in tenths. *)
(***************************************************************************)
EXTENDS Integers, Sequences, FiniteSets, TLC

(***************************************************************************)
(* Program constants.                                                      *)
(***************************************************************************)
RATE_LIMIT == 100

\* The literal 60 of the purge in check_rate_limit, in seconds.
WINDOW == 60

MAX_FILE_SIZE == 10 * 1024 * 1024

ALLOWED_IMAGE_TYPES == {"image/jpeg", "image/png", "image/jpg"}

\* 0.2, in tenths.
CONFIDENCE_THRESHOLD == 2

\* The default of get_top_predictions' top_k parameter.
TOP_K == 3

\* IMG_SIZE = (128, 128): the side of the resized image.
IMG_SIZE == 128
\* Defined next to the other limits; nothing reads it.
REQUEST_TIMEOUT == 30

(***************************************************************************)
(* Bounds of the model.                                                    *)
(***************************************************************************)
\* The clock takes the values 0..MaxSkew, then WINDOW (when a timestamp of
\* time 0 is exactly WINDOW old and the later ones are younger), then
\* WINDOW+MaxSkew+1 (when all of them are older than WINDOW).
MaxSkew == 1

\* Requests handled in one run, on top of those of the initial state.
MaxCalls == 3

\* The classifier's output vector has NumClasses entries (indices 0..NumClasses-1).
NumClasses == 4

\* Probabilities range over 0..MaxProb tenths.
MaxProb == 3

Clients == {"a", "b"}

Slots == {1, 2}

Instants == (0 .. MaxSkew) \cup {WINDOW, WINDOW + MaxSkew + 1}

\* The number of requests client "a" has already been admitted for, at time
\* 0, in the warm initial state: one short of the limit.
Prefill == RATE_LIMIT - 1

VARIABLES
    phase,          \* "starting" | "serving" | "failed": the process
    model,          \* the module-level model handle: "None" or the artifact loaded
    disk,           \* what each candidate artifact path holds
    now,            \* time.time()
    request_times,  \* the module-level dict: client -> list of timestamps
    admitted,       \* history: client -> instant -> calls admitted at that instant
    req,            \* the /predict coroutines: slot -> where it stands
    last,           \* the exchange that just completed (cleared on delivery)
    calls,          \* requests handled so far
    burst           \* the burst driver: calls made and the last return value

vars == <<phase, model, disk, now, request_times, admitted, req, last, calls, burst>>

(***************************************************************************)
(* check_rate_limit                                                        *)
(***************************************************************************)
WindowOfAnyone(rt, ip) ==
    IF DOMAIN rt = {} THEN << >> ELSE rt[CHOOSE c \in DOMAIN rt : TRUE]

\* if client_ip not in request_times: request_times[client_ip] = []
WindowOf(rt, ip) == IF ip \in DOMAIN rt THEN rt[ip] ELSE << >>

PurgeNever(w, t) == w

PurgeInclusive(w, t) == SelectSeq(w, LAMBDA x : t - x <= WINDOW)

\* [t for t in request_times[client_ip] if current_time - t < 60]
Purge(w, t) == SelectSeq(w, LAMBDA x : t - x < WINDOW)

AtLimitOffByOne(w) == Len(w) > RATE_LIMIT

\* len(request_times[client_ip]) >= RATE_LIMIT
AtLimit(w) == Len(w) >= RATE_LIMIT

StoreAlone(rt, ip, w) == [c \in {ip} |-> w]

\* request_times[client_ip] = w
Store(rt, ip, w) ==
    [c \in (DOMAIN rt) \cup {ip} |-> IF c = ip THEN w ELSE rt[c]]

check_rate_limit_RecordsRejected(rt, ip, t) ==
    LET kept == Purge(WindowOf(rt, ip), t)
    IN  [ret |-> ~AtLimit(kept), request_times |-> Store(rt, ip, Append(kept, t))]

\* The call's return value and the dict it leaves behind.
check_rate_limit(rt, ip, t) ==
    LET kept == Purge(WindowOf(rt, ip), t)
    IN  IF AtLimit(kept)
        THEN [ret |-> FALSE, request_times |-> Store(rt, ip, kept)]
        ELSE [ret |-> TRUE, request_times |-> Store(rt, ip, Append(kept, t))]

\* The history of admissions: one more for ip at instant t when the call returned true.
Record(adm, ip, t, ret) ==
    IF ret THEN [adm EXCEPT ![ip][t] = @ + 1] ELSE adm

NoAdmissions == [c \in Clients |-> [t \in Instants |-> 0]]

Idle ==
    [pc |-> "idle", ip |-> "-", size |-> 0, ctype |-> "-", t0 |-> 0, admit |-> FALSE,
     steps |-> << >>]

NoRequests == [s \in Slots |-> Idle]

NoExchange == [kind |-> "none"]

NoBurst == [stage |-> "off", n |-> 0, ret |-> TRUE, ended |-> 0]

(***************************************************************************)
(* load_model_safely and the module-level startup                          *)
(***************************************************************************)
\* model_paths = [MODEL_PATH, MODEL_PATH_KERAS]
model_paths == <<"h5", "keras">>

\* What a candidate path may hold: nothing; a file load_model raises on; a
\* file that loads to something that is no tf.keras.Model; a model.
ArtifactStates == {"missing", "corrupt", "notmodel", "ok"}

DiskStates == [{model_paths[i] : i \in 1 .. Len(model_paths)} -> ArtifactStates]

TryCandidateUnverified(d, path) ==
    IF d[path] = "missing" THEN "skip"
    ELSE IF d[path] = "corrupt" THEN "skip"
    ELSE "return"

\* One turn of the loop: "skip" (continue) or "return".
TryCandidate(d, path) ==
    IF d[path] = "missing" THEN "skip"          \* not os.path.exists: continue
    ELSE IF d[path] = "corrupt" THEN "skip"     \* load_model raises: except, continue
    ELSE IF d[path] = "notmodel" THEN "skip"    \* ValueError raised: except, continue
    ELSE "return"

RECURSIVE LoadFrom(_, _)
LoadFrom(d, i) ==
    IF i > Len(model_paths) THEN [raised |-> TRUE, model |-> "None"]
    ELSE IF TryCandidate(d, model_paths[i]) = "return"
         THEN [raised |-> FALSE, model |-> model_paths[i]]
         ELSE LoadFrom(d, i + 1)

load_model_safely(d) == LoadFrom(d, 1)

(***************************************************************************)
(* validate_image                                                          *)
(***************************************************************************)
validate_image_AtCeiling(size, ctype) ==
    IF size >= MAX_FILE_SIZE THEN "FileTooLarge"
    ELSE IF ctype \notin ALLOWED_IMAGE_TYPES THEN "UnsupportedMediaType"
    ELSE "ok"

validate_image(size, ctype) ==
    IF size > MAX_FILE_SIZE THEN "FileTooLarge"
    ELSE IF ctype \notin ALLOWED_IMAGE_TYPES THEN "UnsupportedMediaType"
    ELSE "ok"

(***************************************************************************)
(* Decoding and preprocess_image.  The upload's bytes are modelled by what *)
(* PIL does with them: "not_image" makes Image.open raise; "truncated" has *)
(* a readable header and pixel data that fails to load; the others decode  *)
(* to an image of that mode.                                               *)
(***************************************************************************)
Modes == {"RGB", "RGBA", "L", "P"}

Contents == {"not_image", "truncated"} \cup Modes

\* Image.open(io.BytesIO(contents)) raises
OpenRaises(c) == c = "not_image"

\* The shape of np.array(image) for an image of IMG_SIZE, by mode.
ArrayShape(mode) ==
    IF mode = "RGB" THEN <<IMG_SIZE, IMG_SIZE, 3>>
    ELSE IF mode = "RGBA" THEN <<IMG_SIZE, IMG_SIZE, 4>>
    ELSE <<IMG_SIZE, IMG_SIZE>>

\* resize loads the pixel data; np.expand_dims(axis=0) prepends the batch dimension.
preprocess_image(c) ==
    IF c = "truncated" THEN [raised |-> TRUE, shape |-> << >>]
    ELSE [raised |-> FALSE, shape |-> <<1>> \o ArrayShape(c)]

(***************************************************************************)
(* model.predict: the classifier is opaque.  It rejects an input that is   *)
(* not of its input shape, may fail on its own (fault), and otherwise      *)
(* returns a vector of NumClasses probabilities.                           *)
(***************************************************************************)
InputShape == <<1, IMG_SIZE, IMG_SIZE, 3>>

Idx == 0 .. (NumClasses - 1)

Probs == 0 .. MaxProb

Vectors == [Idx -> Probs]

model_predict(m, shape, fault) ==
    IF m = "None" THEN "raise"
    ELSE IF shape # InputShape THEN "raise"
    ELSE IF fault THEN "raise"
    ELSE "return"

(***************************************************************************)
(* get_top_predictions                                                     *)
(***************************************************************************)
Labels ==
    << "Apple___Apple_scab", "Apple___Black_rot", "Apple___Cedar_apple_rust",
       "Apple___healthy", "Corn_(maize)___Cercospora_leaf_spot Gray_leaf_spot",
       "Corn_(maize)___Common_rust_", "Corn_(maize)___Northern_Leaf_Blight",
       "Corn_(maize)___healthy", "Grape___Black_rot", "Grape___Esca_(Black_Measles)",
       "Grape___Leaf_blight_(Isariopsis_Leaf_Spot)", "Grape___healthy",
       "Potato___Early_blight", "Potato___Late_blight", "Potato___healthy",
       "Tomato___Bacterial_spot", "Tomato___Early_blight", "Tomato___Late_blight",
       "Tomato___Leaf_Mold", "Tomato___Septoria_leaf_spot",
       "Tomato___Spider_mites Two-spotted_spider_mite", "Tomato___Target_Spot",
       "Tomato___Tomato_Yellow_Leaf_Curl_Virus", "Tomato___Tomato_mosaic_virus",
       "Tomato___healthy" >>

\* DISEASE_CLASSES[str(idx)]
DISEASE_CLASSES(idx) == Labels[idx + 1]

\* The ascending orders of the indices in S: a least-valued index first, then
\* an ascending order of the others.
RECURSIVE Ascending(_, _)
Ascending(p, S) ==
    IF S = {} THEN {<< >>}
    ELSE UNION {{<<x>> \o q : q \in Ascending(p, S \ {x})} :
                    x \in {y \in S : \A z \in S : p[y] <= p[z]}}

\* np.argsort(p), whose default sort is not stable: any order of the
\* indices along which the values do not decrease.
Argsorts(p) == Ascending(p, Idx)

\* s[-k:]
LastK(s, k) == IF Len(s) <= k THEN s ELSE SubSeq(s, Len(s) - k + 1, Len(s))

\* s[::-1]
Reversed(s) == [i \in 1 .. Len(s) |-> s[Len(s) + 1 - i]]

TopIndicesUnreversed(o, k) == LastK(o, k)

\* np.argsort(predictions[0])[-top_k:][::-1], o being the argsort.
TopIndices(o, k) == Reversed(LastK(o, k))

\* [(DISEASE_CLASSES[str(idx)], float(predictions[0][idx])) for idx in top_indices]
get_top_predictions(p, o, k) ==
    LET top == TopIndices(o, k)
    IN  [i \in 1 .. Len(top) |->
            [label |-> DISEASE_CLASSES(top[i]), confidence |-> p[top[i]]]]

(***************************************************************************)
(* The response of /predict                                                *)
(***************************************************************************)
\* dict(top_predictions): a later pair replaces an earlier one of the same label.
DictOf(top) ==
    [l \in {top[i].label : i \in 1 .. Len(top)} |->
        LET at == CHOOSE i \in 1 .. Len(top) :
                    /\ top[i].label = l
                    /\ \A j \in 1 .. Len(top) : top[j].label = l => j <= i
        IN  top[at].confidence]

\* {DISEASE_CLASSES[str(i)]: float(p) for i, p in enumerate(predictions[0])}
AllPredictions(p) ==
    [l \in {DISEASE_CLASSES(i) : i \in Idx} |->
        p[CHOOSE i \in Idx : DISEASE_CLASSES(i) = l]]

LowConfidenceAtThreshold(c) == c <= CONFIDENCE_THRESHOLD

\* confidence < CONFIDENCE_THRESHOLD
LowConfidence(c) == c < CONFIDENCE_THRESHOLD

Report(top, p, dt) ==
    [predicted_class |-> top[1].label,
     confidence |-> top[1].confidence,
     top_3_predictions |-> DictOf(top),
     all_predictions |-> AllPredictions(p),
     processing_time |-> dt]

WarningText == "Low confidence prediction. Please try with a clearer image."

\* The two return statements of predict.
Response(top, p, dt) ==
    IF LowConfidence(top[1].confidence)
    THEN Report(top, p, dt) @@ [warning |-> WarningText]
    ELSE Report(top, p, dt)

(***************************************************************************)
(* predict.  The coroutine runs without suspension up to `await            *)
(* file.read()` and again from there to its end: the event loop runs one   *)
(* coroutine at a time, so each stretch is one step.                       *)
(***************************************************************************)
\* The record of a completed /predict exchange.
\* r: the request; out: what its last stretch ended in.
Exchange(r, contents, fault, predictions, out) ==
    [kind |-> "predict", ip |-> r.ip, size |-> r.size, ctype |-> r.ctype,
     t0 |-> r.t0, admit |-> r.admit, contents |-> contents, fault |-> fault,
     predictions |-> predictions, status |-> out.status, detail |-> out.detail,
     steps |-> r.steps \o out.steps, top |-> out.top, body |-> out.body]

NoBody == [none |-> TRUE]

ValidateSkipped(size, ctype) == "ok"

\* validate_image(file), as predict calls it.
Validated(size, ctype) == validate_image(size, ctype)

\* From the top of predict to `await file.read()`: what the stretch ends in,
\* given the return value of check_rate_limit.
Admission(admit, size, ctype) ==
    IF ~admit
    THEN [status |-> 429, detail |-> "Rate limit exceeded. Please try again later.",
          steps |-> <<"admission">>, top |-> << >>, body |-> NoBody]
    ELSE IF Validated(size, ctype) # "ok"
    THEN [status |-> 400, detail |-> Validated(size, ctype),
          steps |-> <<"admission", "validation">>, top |-> << >>, body |-> NoBody]
    ELSE [status |-> 0, detail |-> "-", steps |-> <<"admission", "validation">>,
          top |-> << >>, body |-> NoBody]

DecodeSkipped(c) == FALSE

\* The try around Image.open: whether predict leaves with "Invalid image file".
DecodeFails(c) == OpenRaises(c)

\* From `await file.read()` to the end of predict.  c: the bytes read; fault:
\* whether the classifier fails on its own; p: the vector it would return;
\* o: the order np.argsort returns for p; dt: the measured duration.
Pipeline(m, c, fault, p, o, dt) ==
    IF DecodeFails(c)
    THEN [status |-> 400, detail |-> "Invalid image file", steps |-> <<"decoding">>,
          top |-> << >>, body |-> NoBody]
    ELSE IF preprocess_image(c).raised
    THEN [status |-> 400, detail |-> "Failed to process image",
          steps |-> <<"decoding", "preprocessing">>, top |-> << >>, body |-> NoBody]
    ELSE IF model_predict(m, preprocess_image(c).shape, fault) = "raise"
    THEN [status |-> 500, detail |-> "Prediction failed",
          steps |-> <<"decoding", "preprocessing", "inference">>, top |-> << >>,
          body |-> NoBody]
    ELSE [status |-> 200, detail |-> "-",
          steps |-> <<"decoding", "preprocessing", "inference", "composition">>,
          top |-> get_top_predictions(p, o, TOP_K),
          body |-> Response(get_top_predictions(p, o, TOP_K), p, dt)]

Durations == {1}

\* Whether the classifier fails on its own: a question only for bytes that reach it.
Faults(c) == IF DecodeFails(c) \/ preprocess_image(c).raised THEN {FALSE} ELSE BOOLEAN

LimiterAfterValidation(rt, ip, t, size, ctype) ==
    IF validate_image(size, ctype) # "ok"
    THEN [ret |-> TRUE, request_times |-> rt]
    ELSE check_rate_limit(rt, ip, t)

\* The first statements of predict: the limiter runs for the client's address
\* on every request, before anything of the upload is looked at.
Limiter(rt, ip, t, size, ctype) == check_rate_limit(rt, ip, t)

ModelAfterRequestUnset(m) == "None"

\* The handlers read the module-level name model; none declares it global or
\* assigns it, so a request leaves the handle as it found it.
ModelAfterRequest(m) == m

PhaseAfterResponseCrashOn500(p, status) == IF status = 500 THEN "failed" ELSE p

\* Every exception of a handler leaves it as an HTTPException, which the
\* framework turns into the response: the process goes on as before.
PhaseAfterResponse(p, status) == p

PredictStart(s, ips, sizes, ctypes) ==
    /\ phase = "serving"
    /\ last = NoExchange
    /\ req[s].pc = "idle"
    /\ \A s2 \in Slots : s2 < s => req[s2].pc # "idle"
    /\ calls < MaxCalls
    /\ \E ip \in ips, size \in sizes, ctype \in ctypes :
        LET r == Limiter(request_times, ip, now, size, ctype)
            a == Admission(r.ret, size, ctype)
            me == [pc |-> "reading", ip |-> ip, size |-> size, ctype |-> ctype,
                   t0 |-> now, admit |-> r.ret, steps |-> << >>]
        IN  /\ request_times' = r.request_times
            /\ admitted' = Record(admitted, ip, now, r.ret)
            /\ IF a.status = 0
               THEN /\ req' = [req EXCEPT ![s] = [me EXCEPT !.steps = a.steps]]
                    /\ last' = last
               ELSE /\ req' = req
                    /\ last' = Exchange(me, "-", FALSE, << >>, a)
            /\ phase' = PhaseAfterResponse(phase, a.status)
    /\ calls' = calls + 1
    /\ model' = ModelAfterRequest(model)
    /\ UNCHANGED <<disk, now, burst>>

PredictResume(s, contents, vectors) ==
    /\ phase = "serving"
    /\ last = NoExchange
    /\ req[s].pc = "reading"
    /\ \E c \in contents, p \in vectors, dt \in Durations :
        \E fault \in Faults(c), o \in Argsorts(p) :
            LET out == Pipeline(model, c, fault, p, o, dt)
            IN  /\ last' = Exchange(req[s], c, fault, p, out)
                /\ phase' = PhaseAfterResponse(phase, out.status)
    /\ req' = [req EXCEPT ![s] = Idle]
    /\ model' = ModelAfterRequest(model)
    /\ UNCHANGED <<disk, now, request_times, admitted, calls, burst>>

(***************************************************************************)
(* health                                                                  *)
(***************************************************************************)
\* metrics: "sampled" when get_system_metrics returns, "raise" when psutil raises.
health(m, metrics) ==
    IF m = "None"
    THEN [kind |-> "health", metrics |-> "-", status |-> 500,
          detail |-> "Health check failed: Model not loaded", body |-> NoBody]
    ELSE IF metrics = "raise"
    THEN [kind |-> "health", metrics |-> metrics, status |-> 500,
          detail |-> "Health check failed: metrics", body |-> NoBody]
    ELSE [kind |-> "health", metrics |-> metrics, status |-> 200, detail |-> "-",
          body |-> [status |-> "healthy", model_loaded |-> TRUE,
                    system_metrics |-> metrics]]

HealthRateLimited ==
    /\ phase = "serving"
    /\ last = NoExchange
    /\ \E ip \in Clients, metrics \in {"sampled", "raise"} :
        LET r == check_rate_limit(request_times, ip, now)
        IN  /\ request_times' = r.request_times
            /\ last' = IF r.ret THEN health(model, metrics)
                       ELSE [kind |-> "health", metrics |-> "-", status |-> 429,
                             detail |-> "Rate limit exceeded. Please try again later.",
                             body |-> NoBody]
    /\ UNCHANGED <<phase, model, disk, now, admitted, req, calls, burst>>

\* One /health request: the handler takes no Request, calls neither
\* check_rate_limit nor anything that writes request_times.
Health ==
    /\ phase = "serving"
    /\ last = NoExchange
    /\ \E metrics \in {"sampled", "raise"} :
        /\ last' = health(model, metrics)
        /\ phase' = PhaseAfterResponse(phase, last'.status)
    /\ model' = ModelAfterRequest(model)
    /\ UNCHANGED <<disk, now, request_times, admitted, req, calls, burst>>

(***************************************************************************)
(* The process                                                             *)
(***************************************************************************)
StartupServesAnyway(raised) == "serving"

\* The module-level try: a load that raises ends the import with
\* RuntimeError, and uvicorn.run is never reached.
AfterLoad(raised) == IF raised THEN "failed" ELSE "serving"

\* model = None; model = load_model_safely()
Startup ==
    /\ phase = "starting"
    /\ LET l == load_model_safely(disk)
       IN  /\ model' = l.model
           /\ phase' = AfterLoad(l.raised)
    /\ UNCHANGED <<disk, now, request_times, admitted, req, last, calls, burst>>

\* Time passes.
Tick ==
    /\ phase = "serving"
    /\ last = NoExchange
    /\ \E t \in Instants : t > now /\ now' = t
    /\ UNCHANGED <<phase, model, disk, request_times, admitted, req, last, calls, burst>>

\* The response that just completed goes out.
Deliver ==
    /\ last # NoExchange
    /\ last' = NoExchange
    /\ UNCHANGED <<phase, model, disk, now, request_times, admitted, req, calls, burst>>

\* A disk on which every candidate is a model.
GoodDisk == [path \in {model_paths[i] : i \in 1 .. Len(model_paths)} |-> "ok"]

\* The process as the import of the module leaves it when the first
\* candidate loads: serving, with an empty dict.
Fresh ==
    /\ phase = "serving"
    /\ model = load_model_safely(GoodDisk).model
    /\ disk = GoodDisk
    /\ now = 0
    /\ request_times = [c \in {} |-> << >>]
    /\ admitted = NoAdmissions
    /\ req = NoRequests
    /\ last = NoExchange
    /\ calls = 0
    /\ burst = NoBurst

\* The serving process after client "a" was admitted Prefill times at time 0.
Warm ==
    /\ phase = "serving"
    /\ model = load_model_safely(GoodDisk).model
    /\ disk = GoodDisk
    /\ now = 0
    /\ request_times = [c \in {"a"} |-> [i \in 1 .. Prefill |-> 0]]
    /\ admitted = [NoAdmissions EXCEPT !["a"][0] = Prefill]
    /\ req = NoRequests
    /\ last = NoExchange
    /\ calls = 0
    /\ burst = NoBurst

(***************************************************************************)
(* Spec: concurrent /predict and /health requests of two clients, with     *)
(* time passing.  The uploads are few: a valid and an invalid media type,  *)
(* an undecodable and a decodable payload.                                 *)
(***************************************************************************)
MainSizes == {MAX_FILE_SIZE}

MainTypes == {"image/png", "image/gif"}

MainContents == {"not_image", "RGB"}

\* The vector that falls from MaxProb by one tenth per class.
MainVectors ==
    {[i \in Idx |-> IF i <= MaxProb THEN MaxProb - i ELSE 0]}

Init == Fresh \/ Warm

Next ==
    \/ \E s \in Slots : PredictStart(s, Clients, MainSizes, MainTypes)
    \/ \E s \in Slots : PredictResume(s, MainContents, MainVectors)
    \/ Health
    \/ Tick
    \/ Deliver

Spec == Init /\ [][Next]_vars

(***************************************************************************)
(* The burst driver: one client calls check_rate_limit RATE_LIMIT + 1      *)
(* times while the clock stays within 0..MaxSkew, waits, and calls again.  *)
(***************************************************************************)
BurstClient == "a"

BurstInit ==
    /\ phase = "serving"
    /\ model = "h5"
    /\ disk = [p \in {"h5", "keras"} |-> "ok"]
    /\ now = 0
    /\ request_times = [c \in {} |-> << >>]
    /\ admitted = NoAdmissions
    /\ req = NoRequests
    /\ last = NoExchange
    /\ calls = 0
    /\ burst = [NoBurst EXCEPT !.stage = "burst"]

BurstCall ==
    /\ burst.stage = "burst"
    /\ burst.n < RATE_LIMIT + 1
    /\ LET r == check_rate_limit(request_times, BurstClient, now)
       IN  /\ request_times' = r.request_times
           /\ admitted' = Record(admitted, BurstClient, now, r.ret)
           /\ burst' = [burst EXCEPT !.n = @ + 1, !.ret = r.ret, !.ended = now]
    /\ UNCHANGED <<phase, model, disk, now, req, last, calls>>

BurstTick ==
    /\ burst.stage = "burst"
    /\ \E t \in Instants :
        /\ t > now
        /\ t <= MaxSkew
        /\ now' = t
    /\ UNCHANGED <<phase, model, disk, request_times, admitted, req, last, calls, burst>>

\* More than WINDOW seconds pass after the last call of the burst.
BurstWait ==
    /\ burst.stage = "burst"
    /\ burst.n >= 1
    /\ \E t \in Instants :
        /\ t - burst.ended > WINDOW
        /\ now' = t
    /\ burst' = [burst EXCEPT !.stage = "waited"]
    /\ UNCHANGED <<phase, model, disk, request_times, admitted, req, last, calls>>

LateCall ==
    /\ burst.stage = "waited"
    /\ LET r == check_rate_limit(request_times, BurstClient, now)
       IN  /\ request_times' = r.request_times
           /\ admitted' = Record(admitted, BurstClient, now, r.ret)
           /\ burst' = [burst EXCEPT !.stage = "late", !.ret = r.ret]
    /\ UNCHANGED <<phase, model, disk, now, req, last, calls>>

BurstNext == BurstCall \/ BurstTick \/ BurstWait \/ LateCall

SpecBurst == BurstInit /\ [][BurstNext]_vars

\* C1: in a burst of RATE_LIMIT + 1 calls of one client within MaxSkew
\* seconds, starting from an empty window, the n-th call returns true exactly
\* when n <= RATE_LIMIT (so only the last one is rejected), and a call made
\* more than WINDOW seconds after the burst returns true.
C1_BurstThenReadmit ==
    /\ (burst.stage \in {"burst", "waited"} /\ burst.n >= 1)
            => (burst.ret <=> burst.n <= RATE_LIMIT)
    /\ burst.stage = "late" => burst.ret

\* The whole burst was made, its last call was rejected, and the late call returned.
C1_Witness ==
    /\ burst.stage = "late"
    /\ burst.n = RATE_LIMIT + 1
    /\ Len(request_times[BurstClient]) = 1

(***************************************************************************)
(* SpecPipeline: one client, one request at a time, with every kind of     *)
(* upload: sizes around the ceiling, allowed and disallowed media types,   *)
(* and every kind of payload.                                              *)
(***************************************************************************)
Sizes == {0, MAX_FILE_SIZE - 1, MAX_FILE_SIZE, MAX_FILE_SIZE + 1}

Types == ALLOWED_IMAGE_TYPES \cup {"image/gif", "text/plain"}

PipelineNext ==
    \/ PredictStart(1, {"a"}, Sizes, Types)
    \/ PredictResume(1, Contents, MainVectors)
    \/ Deliver

SpecPipeline == Init /\ [][PipelineNext]_vars

(***************************************************************************)
(* Properties of the rate limiter under Spec.                              *)
(***************************************************************************)
RECURSIVE SumOver(_, _)
SumOver(f, S) ==
    IF S = {} THEN 0
    ELSE LET x == CHOOSE y \in S : TRUE
         IN  f[x] + SumOver(f, S \ {x})

\* The instants of the half-open interval (T - WINDOW, T].
WindowAt(T) == {t \in Instants : T - WINDOW < t /\ t <= T}

\* The calls of client c admitted at times in (T - WINDOW, T].
AdmittedIn(c, T) == SumOver(admitted[c], WindowAt(T))

\* How often timestamp t stands in list w.
Occurrences(w, t) == Len(SelectSeq(w, LAMBDA x : x = t))

Horizon == WINDOW + MaxSkew + 1

\* The intervals (T - WINDOW, T] of all instants T, as sets of clock values.
Windows == {WindowAt(T) : T \in 0 .. Horizon}

\* C2: for every client and every instant T, at most RATE_LIMIT of the
\* client's calls were admitted at times in the half-open interval
\* (T - WINDOW, T].
C2_AtMostLimitPerWindow ==
    \A c \in Clients : \A W \in Windows : SumOver(admitted[c], W) <= RATE_LIMIT

\* A client filled the window that ends at time 0 to RATE_LIMIT and was
\* admitted again once the window had moved on.
C2_Witness ==
    \E c \in Clients :
        /\ AdmittedIn(c, 0) = RATE_LIMIT
        /\ SumOver(admitted[c], Instants) > RATE_LIMIT

\* C3: whatever the interleaving of the requests in flight, every admitted
\* timestamp that is younger than WINDOW stands in its client's list as often
\* as it was admitted (none is lost, none is counted twice), and the list of
\* a client never holds more than RATE_LIMIT timestamps younger than WINDOW.
C3_WindowsConsistent ==
    \A c \in Clients :
        /\ \A t \in Instants :
            (t <= now /\ now - t < WINDOW)
                => Occurrences(WindowOf(request_times, c), t) = admitted[c][t]
        /\ Len(Purge(WindowOf(request_times, c), now)) <= RATE_LIMIT

\* Two requests of one client are in flight at once, both admitted at the
\* same instant, while the other client has a request recorded too.
C3_Witness ==
    /\ req[1].pc = "reading"
    /\ req[2].pc = "reading"
    /\ req[1].ip = req[2].ip
    /\ req[1].t0 = req[2].t0
    /\ Occurrences(request_times[req[1].ip], req[1].t0) >= 2
    /\ DOMAIN request_times = Clients

(***************************************************************************)
(* Properties of the pipeline under SpecPipeline.                          *)
(***************************************************************************)
StepOrder ==
    <<"admission", "validation", "decoding", "preprocessing", "inference", "composition">>

IsPrefix(a, b) == Len(a) <= Len(b) /\ a = SubSeq(b, 1, Len(a))

Ran(x, step) == \E i \in 1 .. Len(x.steps) : x.steps[i] = step

\* The bytes decode and load: neither Image.open nor the resize raises.
Decodable(c) == c \in Modes

\* C4: the steps of a request run in the order admission, validation,
\* decoding, preprocessing, inference, composition with none left out, and
\* the classifier is invoked only for a request that the rate limiter
\* admitted, whose size and media type are valid and whose bytes decode.
C4_StepsInOrder ==
    /\ \A s \in Slots : req[s].pc = "reading" =>
        /\ req[s].steps = SubSeq(StepOrder, 1, 2)
        /\ req[s].admit
        /\ req[s].size <= MAX_FILE_SIZE
        /\ req[s].ctype \in ALLOWED_IMAGE_TYPES
    /\ last.kind = "predict" =>
        /\ IsPrefix(last.steps, StepOrder)
        /\ Len(last.steps) >= 1
        /\ Ran(last, "validation") => last.admit
        /\ Ran(last, "decoding") =>
                last.size <= MAX_FILE_SIZE /\ last.ctype \in ALLOWED_IMAGE_TYPES
        /\ Ran(last, "preprocessing") => ~OpenRaises(last.contents)
        /\ Ran(last, "inference") =>
            /\ last.admit
            /\ last.size <= MAX_FILE_SIZE
            /\ last.ctype \in ALLOWED_IMAGE_TYPES
            /\ Decodable(last.contents)
        /\ Ran(last, "composition") => ~last.fault /\ last.status = 200

\* A request ran through all six steps after an earlier one was turned away
\* by the rate limiter.
C4_Witness ==
    /\ last.kind = "predict"
    /\ last.steps = StepOrder
    /\ \E t \in Instants : Occurrences(request_times["a"], t) = RATE_LIMIT

\* C5: a request ends in exactly one of 200, 400, 429 and 500, decided by
\* the kind of failure: 429 exactly when the rate limiter turned it away; 400
\* exactly when it was admitted and its size is over the ceiling, its media
\* type is not allowed or its bytes do not decode; 500 exactly when all of
\* that passed and the classifier call raised; 200 (with a body) otherwise.
\* A payload that is no image, sent with an allowed media type, ends in 400.
C5_StatusByFailureKind ==
    last.kind = "predict" =>
        LET invalid == last.size > MAX_FILE_SIZE \/ last.ctype \notin ALLOWED_IMAGE_TYPES
            undecodable == ~invalid /\ ~Decodable(last.contents)
        IN  /\ last.status \in {200, 400, 429, 500}
            /\ last.status = 429 <=> ~last.admit
            /\ last.status = 400 <=> (last.admit /\ (invalid \/ undecodable))
            /\ last.status = 500 <=>
                (/\ last.admit /\ ~invalid /\ ~undecodable
                 /\ last.steps[Len(last.steps)] = "inference")
            /\ last.status = 200 <=> last.body # NoBody
            /\ last.status = 200 <=> Ran(last, "composition")
            /\ (last.admit /\ ~invalid /\ last.contents = "not_image")
                    => last.status = 400

\* An admitted payload that is no image, of an allowed media type and size,
\* was answered.
C5_Witness ==
    /\ last.kind = "predict"
    /\ last.admit
    /\ last.contents = "not_image"
    /\ last.ctype \in ALLOWED_IMAGE_TYPES
    /\ last.status = 400

\* What validate_image did with the request: it returned (the request went
\* on to read the upload) or it raised the error named in the detail.
ValidationOf(x) == IF Ran(x, "decoding") THEN "ok" ELSE x.detail

\* C6 as stated: validation succeeds exactly when the size is at most the
\* ceiling and the media type is allowed; any size over the ceiling fails as
\* too large and any media type outside the allow-list fails as unsupported.
C6_AsStated ==
    (last.kind = "predict" /\ last.admit) =>
        /\ ValidationOf(last) = "ok"
            <=> (last.size <= MAX_FILE_SIZE /\ last.ctype \in ALLOWED_IMAGE_TYPES)
        /\ last.size > MAX_FILE_SIZE => ValidationOf(last) = "FileTooLarge"
        /\ last.ctype \notin ALLOWED_IMAGE_TYPES
                => ValidationOf(last) = "UnsupportedMediaType"

\* C6, amended: validation succeeds exactly when the size is at most the
\* ceiling and the media type is allowed; any size over the ceiling fails as
\* too large, whatever the media type; a media type outside the allow-list
\* fails as unsupported when the size is at most the ceiling.
C6_SizeCheckedFirst ==
    (last.kind = "predict" /\ last.admit) =>
        /\ ValidationOf(last) = "ok"
            <=> (last.size <= MAX_FILE_SIZE /\ last.ctype \in ALLOWED_IMAGE_TYPES)
        /\ last.size > MAX_FILE_SIZE => ValidationOf(last) = "FileTooLarge"
        /\ (last.size <= MAX_FILE_SIZE /\ last.ctype \notin ALLOWED_IMAGE_TYPES)
                => ValidationOf(last) = "UnsupportedMediaType"

\* An upload over the ceiling and of a disallowed media type was refused.
C6_Witness ==
    /\ last.kind = "predict"
    /\ last.admit
    /\ last.size > MAX_FILE_SIZE
    /\ last.ctype \notin ALLOWED_IMAGE_TYPES
    /\ last.status = 400
    /\ last.detail = "FileTooLarge"

(***************************************************************************)
(* SpecCompose: valid uploads that decode, with every prediction vector    *)
(* and every order np.argsort may return for it.                           *)
(***************************************************************************)
ComposeNext ==
    \/ PredictStart(1, {"a"}, {MAX_FILE_SIZE}, {"image/png"})
    \/ PredictResume(1, {"RGB"}, Vectors)
    \/ Deliver

SpecCompose == Fresh /\ [][ComposeNext]_vars

\* The largest entry of vector p.
MaxOf(p) == CHOOSE v \in Probs : (\E i \in Idx : p[i] = v) /\ (\A i \in Idx : p[i] <= v)

\* The index that carries label l.
IndexOf(l) == CHOOSE i \in Idx : DISEASE_CLASSES(i) = l

Composed == last.kind = "predict" /\ last.status = 200

\* C7: the ranking has exactly TOP_K entries, each the label and the
\* probability of one class, no class twice; the confidences do not increase
\* from first to last; the first is the largest probability of the vector;
\* and the first entry is the response's predicted_class and confidence.
C7_TopKRanked ==
    Composed =>
        /\ Len(last.top) = TOP_K
        /\ \A i \in 1 .. Len(last.top) :
            last.top[i].confidence = last.predictions[IndexOf(last.top[i].label)]
        /\ \A i, j \in 1 .. Len(last.top) :
            /\ i < j => last.top[i].confidence >= last.top[j].confidence
            /\ last.top[i].label = last.top[j].label => i = j
        /\ last.top[1].confidence = MaxOf(last.predictions)
        /\ last.body.predicted_class = last.top[1].label
        /\ last.body.confidence = last.top[1].confidence

\* A ranking of three different confidences was returned.
C7_Witness ==
    /\ Composed
    /\ last.top[1].confidence > last.top[2].confidence
    /\ last.top[2].confidence > last.top[3].confidence

\* C8: of two classes of equal probability the one of the lower index is
\* ranked first, and when classes tie at the cut-off the ones of the lower
\* indices are the ones selected.
C8_TiesLowerIndexFirst ==
    Composed =>
        /\ \A i, j \in 1 .. Len(last.top) :
            (i < j /\ last.top[i].confidence = last.top[j].confidence)
                => IndexOf(last.top[i].label) < IndexOf(last.top[j].label)
        /\ \A i \in 1 .. Len(last.top) : \A c \in Idx :
            (/\ last.predictions[c] = last.top[i].confidence
             /\ \A j \in 1 .. Len(last.top) : IndexOf(last.top[j].label) # c)
                => IndexOf(last.top[i].label) < c

\* C9: a successful response carries the warning exactly when the largest
\* probability is below the threshold; with or without it the response is a
\* 200 and carries predicted_class, confidence, top_3_predictions,
\* all_predictions and processing_time, with the values of the ranking and
\* of the vector; and whenever the classifier returns, the response is a 200.
C9_WarningIffLowConfidence ==
    /\ (last.kind = "predict" /\ Ran(last, "inference") /\ ~last.fault)
            => last.status = 200
    /\ Composed =>
        /\ ("warning" \in DOMAIN last.body)
                <=> MaxOf(last.predictions) < CONFIDENCE_THRESHOLD
        /\ (DOMAIN last.body) \ {"warning"} =
                {"predicted_class", "confidence", "top_3_predictions",
                 "all_predictions", "processing_time"}
        /\ last.body.confidence = MaxOf(last.predictions)
        /\ DOMAIN last.body.top_3_predictions = {last.top[i].label : i \in 1 .. TOP_K}
        /\ \A i \in 1 .. TOP_K :
            last.body.top_3_predictions[last.top[i].label] = last.top[i].confidence
        /\ DOMAIN last.body.all_predictions = {DISEASE_CLASSES(i) : i \in Idx}
        /\ \A i \in Idx :
            last.body.all_predictions[DISEASE_CLASSES(i)] = last.predictions[i]

\* A response with the warning was returned with status 200.
C9_Witness ==
    /\ Composed
    /\ "warning" \in DOMAIN last.body
    /\ last.body.confidence = CONFIDENCE_THRESHOLD - 1

(***************************************************************************)
(* SpecLoad: the import of the module on every disk, and the requests the  *)
(* process then serves.                                                    *)
(***************************************************************************)
Cold ==
    /\ phase = "starting"
    /\ model = "None"
    /\ disk \in DiskStates
    /\ now = 0
    /\ request_times = [c \in {} |-> << >>]
    /\ admitted = NoAdmissions
    /\ req = NoRequests
    /\ last = NoExchange
    /\ calls = 0
    /\ burst = NoBurst

LoadNext ==
    \/ Startup
    \/ Health
    \/ \E s \in Slots : PredictStart(s, {"a"}, MainSizes, MainTypes)
    \/ \E s \in Slots : PredictResume(s, MainContents, MainVectors)
    \/ Deliver

SpecLoad == Cold /\ [][LoadNext]_vars

\* No candidate path holds a model.
NoneUsable == \A i \in 1 .. Len(model_paths) : disk[model_paths[i]] # "ok"

\* A request is being handled or was handled.
Handled ==
    \/ calls > 0
    \/ last # NoExchange
    \/ \E s \in Slots : req[s].pc # "idle"

\* C10: the process serves only with the model set; when no candidate holds
\* a model the startup fails and no request is ever handled; a request is
\* handled only by a serving process with the model set; /health, whenever
\* its metrics can be sampled, answers 200 with model_loaded true; and the
\* /health handler answers 500 for an unset model.
C10_NeverServingUnloaded ==
    /\ phase = "serving" => model # "None"
    /\ (NoneUsable /\ phase # "starting") => (phase = "failed" /\ ~Handled)
    /\ Handled => (phase = "serving" /\ model # "None")
    /\ (last.kind = "health" /\ last.metrics = "sampled") =>
        /\ last.status = 200
        /\ last.body.model_loaded = TRUE
    /\ last.kind = "health" => last.detail # "Health check failed: Model not loaded"
    /\ \A metrics \in {"sampled", "raise"} : health("None", metrics).status = 500

\* /health answered healthy in a process that loaded the second candidate.
C10_Witness ==
    /\ last.kind = "health"
    /\ last.status = 200
    /\ model = "keras"
    /\ phase = "serving"

\* The place of the first candidate that holds a model; 0 when none does.
FirstUsable ==
    IF NoneUsable THEN 0
    ELSE CHOOSE i \in 1 .. Len(model_paths) :
            /\ disk[model_paths[i]] = "ok"
            /\ \A j \in 1 .. (i - 1) : disk[model_paths[j]] # "ok"

\* C11: once the startup has run, the model is the first candidate, in the
\* order .h5 then .keras, that exists, loads and is a model: a candidate that
\* is missing, fails to load or is no model is passed over, a later candidate
\* is never taken when an earlier one is usable, and when none is usable the
\* load raises: the model stays unset and the process does not serve.
C11_FirstUsableCandidate ==
    /\ model_paths = <<"h5", "keras">>
    /\ phase # "starting" =>
        /\ NoneUsable <=> load_model_safely(disk).raised
        /\ NoneUsable => (model = "None" /\ phase = "failed")
        /\ ~NoneUsable => (model = model_paths[FirstUsable] /\ phase = "serving")
    /\ phase = "starting" => model = "None"

\* The first candidate was on disk but did not load, and the second was taken.
C11_Witness ==
    /\ phase = "serving"
    /\ disk["h5"] = "corrupt"
    /\ model = "keras"
    /\ calls = 0

\* C12: no /predict request is in flight, or answers 200, more than
\* REQUEST_TIMEOUT seconds after it began.
C12_BoundedHandlingTime ==
    /\ \A s \in Slots :
        req[s].pc # "idle" => now - req[s].t0 <= REQUEST_TIMEOUT
    /\ (last.kind = "predict" /\ last.status = 200) =>
        now - last.t0 <= REQUEST_TIMEOUT

\* A step in which check_rate_limit ran, and the identity it ran for.
CallMade == calls' = calls + 1

Caller ==
    IF last' # NoExchange THEN last'.ip
    ELSE req'[CHOOSE s \in Slots : req'[s] # req[s]].ip

\* C13: right after a check_rate_limit call for an identity at time now,
\* every timestamp kept in that identity's window is less than 60 seconds
\* old (one exactly 60 seconds old is gone), and the window holds at most
\* RATE_LIMIT timestamps.
C13_WindowAfterCall ==
    [][CallMade =>
        LET w == request_times'[Caller]
        IN  /\ \A i \in 1 .. Len(w) : now' - w[i] < WINDOW
            /\ Len(w) <= RATE_LIMIT]_vars

\* A call has just run for an identity that was admitted exactly 60 seconds
\* ago and again 59 seconds ago: the first timestamp is gone, the second kept.
C13_Witness ==
    /\ last.kind = "predict"
    /\ last.t0 = now
    /\ \E t \in Instants :
        /\ now - t = WINDOW
        /\ admitted[last.ip][t] > 0
        /\ Occurrences(request_times[last.ip], t) = 0
    /\ \E t \in Instants :
        /\ now - t = WINDOW - 1
        /\ Occurrences(request_times[last.ip], t) > 0

\* The call of this step returned false.
Rejected == last' # NoExchange /\ last'.kind = "predict" /\ last'.status = 429

\* C14: a rejected check_rate_limit call records nothing: the identity's
\* window is the old one without its expired timestamps, and the history of
\* admissions is as before. A call is rejected exactly when RATE_LIMIT or more
\* of the identity's admitted timestamps are younger than 60 seconds, so the
\* rejected calls in between do not delay the next admission.
C14_RejectionRecordsNothing ==
    [][CallMade =>
        /\ Rejected <=> AdmittedIn(Caller, now) >= RATE_LIMIT
        /\ Rejected =>
            /\ request_times'[Caller] =
                SelectSeq(request_times[Caller], LAMBDA x : now - x < WINDOW)
            /\ \A c \in DOMAIN request_times : c # Caller =>
                request_times'[c] = request_times[c]
            /\ admitted' = admitted]_vars

\* One identity has made every call: the first took the last free place of its
\* window, the two after it were rejected, and the window is still full.
C14_Witness ==
    /\ last.kind = "predict"
    /\ last.status = 429
    /\ calls = MaxCalls
    /\ \A c \in Clients \ {last.ip} : c \notin DOMAIN request_times
    /\ Len(request_times[last.ip]) = RATE_LIMIT
    /\ AdmittedIn(last.ip, now) = RATE_LIMIT

\* C15: whatever the pixel mode of an image that decodes, the tensor that
\* preprocess_image hands to the classifier has shape (1, 128, 128, 3).
C15_TensorShape ==
    (last.kind = "predict" /\ Ran(last, "inference")) =>
        /\ ~preprocess_image(last.contents).raised
        /\ preprocess_image(last.contents).shape = <<1, IMG_SIZE, IMG_SIZE, 3>>

\* C16: the startup runs once, and from then on the model handle is fixed:
\* no step of a /predict or /health request, however the requests interleave,
\* assigns it, reloads it from the disk or unsets it.
C16_ModelLoadedOnce ==
    [][/\ phase = "starting" => phase' # "starting"
       /\ phase # "starting" =>
            /\ model' = model
            /\ phase' # "starting"
            /\ disk' = disk]_vars

\* Every request the bound allows has been made, a /predict request has
\* answered 200 while another is still being read, and the model is the one
\* the startup took from the second candidate.
C16_Witness ==
    /\ calls = MaxCalls
    /\ model = "keras"
    /\ disk["h5"] # "ok"
    /\ last.kind = "predict"
    /\ last.status = 200
    /\ \E s \in Slots : req[s].pc = "reading"

\* C17: no failed request stops the service. When a /predict request has
\* ended in 400, 429 or 500 the process is serving with the model it loaded,
\* and its answer goes out; and whenever the process has handled a request and
\* is free, it takes the next one: a new request is admitted to the handler, or
\* one that is being read goes on.
C17_FailureDoesNotStopService ==
    /\ (last.kind = "predict" /\ last.status \in {400, 429, 500}) =>
        /\ phase = "serving"
        /\ model = load_model_safely(disk).model
        /\ model # "None"
        /\ ENABLED Deliver
    /\ (last = NoExchange /\ calls > 0 /\ calls < MaxCalls) =>
        ENABLED (\E s \in Slots :
                    \/ PredictStart(s, Clients, MainSizes, MainTypes)
                    \/ PredictResume(s, MainContents, MainVectors))

\* One identity made every call: admitted into the last free place at time 0,
\* rejected with 429 once before the window slid, and then, a window later,
\* admitted again and answered 200.
C17_Witness ==
    /\ last.kind = "predict"
    /\ last.status = 200
    /\ last.t0 >= WINDOW
    /\ calls = MaxCalls
    /\ \A c \in Clients \ {last.ip} : c \notin DOMAIN request_times
    /\ admitted[last.ip][0] = RATE_LIMIT
    /\ SumOver(admitted[last.ip], Instants) = RATE_LIMIT + 1

\* C18: a check_rate_limit call for one identity leaves the window of every
\* other identity as it was, and is rejected only on the caller's own
\* admissions, so a client at its limit costs no other client a request. The
\* identities that have a window only grow in number: a call adds the
\* caller's, and no step removes one.
C18_WindowsAreSeparate ==
    [][/\ DOMAIN request_times \subseteq DOMAIN request_times'
       /\ CallMade =>
            /\ DOMAIN request_times' = DOMAIN request_times \cup {Caller}
            /\ \A c \in DOMAIN request_times \ {Caller} :
                request_times'[c] = request_times[c]
            /\ Rejected => AdmittedIn(Caller, now) >= RATE_LIMIT
       /\ ~CallMade => request_times' = request_times]_vars

\* A client's first request is admitted while the other client's window is full.
C18_Witness ==
    /\ last.kind = "predict"
    /\ last.admit
    /\ request_times[last.ip] = <<last.t0>>
    /\ \E c \in DOMAIN request_times \ {last.ip} :
        /\ Len(request_times[c]) = RATE_LIMIT
        /\ \A i \in 1 .. RATE_LIMIT : last.t0 - request_times[c][i] < WINDOW

\* The caller's window before the call of this step, without the timestamps
\* that are 60 seconds old or older.
CallerKept ==
    IF Caller \in DOMAIN request_times
    THEN SelectSeq(request_times[Caller], LAMBDA x : now - x < WINDOW)
    ELSE << >>

\* C19: admission is recorded before validation. A request that finds fewer
\* than RATE_LIMIT live timestamps is admitted and its timestamp is appended
\* whatever its size and media type are, so also when it ends in 400 at once;
\* no later step of the request, ending in 400, 500 or 200, gives the place
\* back; and a request that finds RATE_LIMIT live timestamps is rejected with
\* 429 whatever its size and media type are.
C19_AdmissionBeforeValidation ==
    [][/\ CallMade =>
            /\ Len(CallerKept) < RATE_LIMIT =>
                /\ ~Rejected
                /\ Caller \in DOMAIN request_times'
                /\ request_times'[Caller] = Append(CallerKept, now)
            /\ Len(CallerKept) >= RATE_LIMIT => Rejected
       /\ ~CallMade => request_times' = request_times]_vars

\* An upload that fails validation has taken the last free place of the window.
C19_Witness ==
    /\ last.kind = "predict"
    /\ last.status = 400
    /\ last.steps = <<"admission", "validation">>
    /\ validate_image(last.size, last.ctype) # "ok"
    /\ Len(request_times[last.ip]) = RATE_LIMIT
    /\ request_times[last.ip][RATE_LIMIT] = last.t0

\* C20: /health stands apart from the request pipeline. A /health call is
\* never answered 429 and leaves every rate window, the history of
\* admissions, the requests in flight and the model handle as they were; and
\* with the model loaded and the metrics sampled it answers 200 "healthy"
\* whatever the windows hold.
C20_HealthIndependent ==
    [][(last' # NoExchange /\ last'.kind = "health") =>
        /\ request_times' = request_times
        /\ admitted' = admitted
        /\ req' = req
        /\ calls' = calls
        /\ model' = model
        /\ phase' = phase
        /\ last'.status # 429
        /\ last'.metrics = "sampled" =>
            /\ last'.status = 200
            /\ last'.body.status = "healthy"
            /\ last'.body.model_loaded]_vars

\* /health answers 200 "healthy" while the only client is at its limit: the
\* client's first call took the last free place and its two later calls,
\* inside the same window, were rejected.
C20_Witness ==
    /\ last.kind = "health"
    /\ last.status = 200
    /\ last.body.status = "healthy"
    /\ calls = MaxCalls
    /\ now < WINDOW
    /\ \E c \in DOMAIN request_times :
        /\ DOMAIN request_times = {c}
        /\ Len(request_times[c]) = RATE_LIMIT
        /\ AdmittedIn(c, now) = RATE_LIMIT

====
